---- MODULE Spec2Model ----
(***************************************************************************)
(* A model of the ada-mcp-servers repository: the restaurant-ordering MCP  *)
(* server (ordering-mcp-server.ts and the ordering driver it imports), the *)
(* Google Calendar/Gmail MCP server, and the chat loop of chat.ts.         *)
(*                                                                         *)
(* Every `await` of the source is a point where the handler yields; a step *)
(* of the model is the code that runs between two such points.  The page,  *)
(* the file system, the browser and the remote services are environment:   *)
(* each awaited call either resolves or rejects.                           *)
(***************************************************************************)
EXTENDS Integers, Sequences, FiniteSets, TLC

(***************************************************************************)
(* Bounds of the model.                                                    *)
(***************************************************************************)
\* Ordering requests the server may have in flight at once.
MaxReq == 2
\* Elements one selector query returns, at most.
MaxElems == 2

(***************************************************************************)
(* Strings are sequences of characters; Null is JavaScript's null.         *)
(***************************************************************************)
Null == <<"null">>

UpperCase == <<"A", "B", "C", "D", "E", "F", "G", "H", "I", "J", "K", "L", "M",
              "N", "O", "P", "Q", "R", "S", "T", "U", "V", "W", "X", "Y", "Z">>
LowerCase == <<"a", "b", "c", "d", "e", "f", "g", "h", "i", "j", "k", "l", "m",
              "n", "o", "p", "q", "r", "s", "t", "u", "v", "w", "x", "y", "z">>

\* toLowerCase on one character.
ToLowerChar(c) ==
    IF \E i \in 1..Len(UpperCase) : UpperCase[i] = c
      THEN LowerCase[CHOOSE i \in 1..Len(UpperCase) : UpperCase[i] = c]
      ELSE c

\* String.prototype.toLowerCase
ToLower(s) == [k \in 1..Len(s) |-> ToLowerChar(s[k])]

\* String.prototype.includes: needle occurs in hay as a contiguous run.
Includes(hay, needle) ==
    \E off \in 0..(Len(hay) - Len(needle)) :
        \A k \in 1..Len(needle) : hay[off + k] = needle[k]

\* A mutation of isItemMatch: containment tested in one direction only.
isItemMatch_OneWay(itemText, searchTerm) ==
    Includes(ToLower(itemText), ToLower(searchTerm))

isItemMatch(itemText, searchTerm) ==
    LET normalizedItem == ToLower(itemText)
        normalizedSearch == ToLower(searchTerm)
    IN  Includes(normalizedItem, normalizedSearch)
            \/ Includes(normalizedSearch, normalizedItem)

\* JavaScript's a || b on strings: null and "" are falsy.
Falsy(s) == s = Null \/ s = <<>>
OrElse(a, b) == IF Falsy(a) THEN b ELSE a

(***************************************************************************)
(* The page as the driver sees it: what a locator query may return.        *)
(***************************************************************************)
\* An element: its item-name attribute (or null) and its text content.
Elements ==
    { [name |-> <<"A", "b">>, text |-> <<"x">>],
      [name |-> Null,         text |-> <<"b", "a">>],
      [name |-> Null,         text |-> <<>>] }

ElemLists == UNION { [1..n -> Elements] : n \in 0..MaxElems }

\* Item names a caller may ask for; the schema accepts the empty string too.
ItemNames == { <<"a", "b">>, <<"b">>, <<"a", "a">>, <<>> }

\* The selectors findAndClickItem tries, by position in its list.
NumSelectors == 5

OrderingTools == {"order_food_item", "browse_menu", "get_cart", "clear_cart", "checkout"}

(***************************************************************************)
(* State.                                                                  *)
(***************************************************************************)
VARIABLES
    browser,        \* the driver's global browser handle; 0 is null
    page,           \* the driver's global page handle; 0 is null
    launched,       \* browsers launched so far (chromium.launch resolved)
    pagesCreated,   \* pages created so far (context.newPage resolved)
    gotos,          \* calls of page.goto(TARGET_URL) so far
    loaded,         \* the pages on which page.goto(TARGET_URL) has resolved
    req,            \* the ordering server's tool calls in flight, by slot
    tokenOk,        \* token.json exists and loads
    greq,           \* the Google server's tool call in flight
    cpc,            \* the chat loop's position
    crash,          \* what made chatLoop reject, "none" while it has not
    turns,          \* user turns taken so far
    history,        \* the conversation sent to the model
    msg,            \* the assistant message whose tool calls are being run
    ti,             \* index in msg.tool_calls of the call being awaited
    toolResults,    \* the tool messages collected in this turn
    callLog,        \* callTool invocations and completions of this turn
    user,           \* the line the user typed last
    matchCall       \* the last call of isItemMatch: its arguments and result

orderingVars == <<browser, page, launched, pagesCreated, gotos, loaded, req>>
googleVars == <<tokenOk, greq>>
chatVars == <<cpc, crash, turns, history, msg, ti, toolResults, callLog, user>>
matchVars == <<matchCall>>

Reqs == 1..MaxReq

\* A slot with no tool call in it.
IdleReq ==
    [ pc |-> "idle", tool |-> "none", itemName |-> Null,
      sel |-> 0, yields |-> <<>>, menuItems |-> <<>>, idx |-> 0, clickedAt |-> <<>>,
      fres |-> <<>>,
      drv |-> "none", res |-> <<>>, hnd |-> "none", out |-> <<>>,
      stage |-> "none", acts |-> <<>>, done |-> {}, aborted |-> "none",
      lastAct |-> "none", captured |-> <<>>, failed |-> FALSE,
      sawBrowser |-> -1, sawPage |-> -1, launches |-> 0, made |-> 0 ]

InitOrdering ==
    /\ browser = 0
    /\ page = 0
    /\ launched = 0
    /\ pagesCreated = 0
    /\ gotos = 0
    /\ loaded = {}
    /\ req = [r \in Reqs |-> IdleReq]

(***************************************************************************)
(* Results of the driver, field for field as the source builds them.       *)
(***************************************************************************)
\* findAndClickItem: no selector yielded an element.
NoMenuItems ==
    [success |-> FALSE, found |-> FALSE, error |-> <<"No menu items found on the page">>]

\* findAndClickItem: no candidate matched, or every click on a match failed.
ItemNotFound(itemName) ==
    [success |-> FALSE, found |-> FALSE,
     error |-> <<"Item not found on the menu", itemName>>]

\* findAndClickItem: a matching candidate was clicked.
Clicked(el) ==
    [success |-> TRUE, found |-> TRUE,
     clickedElement |-> OrElse(el.name, OrElse(el.text, <<"Unknown">>))]

\* The file takeScreenshot writes: OUT_DIR/<name>-<timestamp>.png
ScreenshotPath(name) == <<"orders", name, "png">>

\* A mutation of the try block's return value: found tells whether the search
\* came upon a matching candidate, clicked or not.
OrderResult_FoundOnError(itemName, fres, screenshot) ==
    [f \in {"success", "itemName", "quantity", "found", "screenshot"}
            \cup (DOMAIN fres \ {"success", "found"}) |->
        CASE f = "success" -> fres.success
          [] f = "itemName" -> itemName
          [] f = "quantity" -> 1
          [] f = "found" -> (fres.found \/ fres.error[1] = "Item not found on the menu")
          [] f = "screenshot" -> screenshot
          [] OTHER -> fres[f]]

\* orderFoodItem's return value in the try block.
OrderResult(itemName, fres, screenshot) ==
    [f \in {"success", "itemName", "quantity", "found", "screenshot"}
            \cup (DOMAIN fres \ {"success", "found"}) |->
        CASE f = "success" -> fres.success
          [] f = "itemName" -> itemName
          [] f = "quantity" -> 1
          [] f = "found" -> fres.found
          [] f = "screenshot" -> screenshot
          [] OTHER -> fres[f]]

\* A mutation: the catch block returns without the path of its screenshot.
OrderFailure_NoPath(itemName, screenshot) ==
    [success |-> FALSE, itemName |-> itemName, quantity |-> 1, found |-> FALSE,
     screenshot |-> <<>>, error |-> <<"error.message">>]

\* orderFoodItem's return value in the catch block.
OrderFailure(itemName, screenshot) ==
    [success |-> FALSE, itemName |-> itemName, quantity |-> 1, found |-> FALSE,
     screenshot |-> screenshot, error |-> <<"error.message">>]

\* getCartContents
CartContents ==
    [items |-> << <<"Cart functionality not implemented yet">> >>,
     total |-> <<"0.00">>, itemCount |-> 0]

\* A mutation of clearCart: the stub reports success.
ClearCartResult_Success ==
    [success |-> TRUE, message |-> <<"Cart clearing not implemented yet">>]

\* clearCart
ClearCartResult ==
    [success |-> FALSE, message |-> <<"Cart clearing not implemented yet">>]

\* proceedToCheckout
CheckoutResult ==
    [success |-> FALSE, message |-> <<"Checkout not implemented yet">>,
     screenshot |-> <<"no-screenshot.png">>]

\* The handler's return value: one text item holding the JSON of the result.
TextOf(result) == [type |-> "text", json |-> result]
\* The handler's return value in its catch block: "Error ...: <message>".
ErrorText == [type |-> "text", error |-> "Error"]

(***************************************************************************)
(* The ordering server: tool handlers and the driver.                      *)
(***************************************************************************)
Set(r, rec) == req' = [req EXCEPT ![r] = rec]

\* A mutation of initBrowser's guard: launch on every call.
NeedsLaunch_Always == TRUE

\* initBrowser's guard: if (!browser)
NeedsLaunch == browser = 0

\* initBrowser up to its first await, entered by the request in `rec`: with no
\* browser it calls chromium.launch; otherwise it returns at once.
InitBrowserCheck(rec) ==
    [rec EXCEPT !.pc = IF NeedsLaunch THEN "launch" ELSE "body",
                !.sawBrowser = browser, !.sawPage = page]

\* The driver function of `rec` throws: the handler's catch returns the
\* error as text.
DriverRaises(rec) ==
    [rec EXCEPT !.pc = "done", !.drv = "raised", !.failed = TRUE,
                !.hnd = "returned", !.out = ErrorText]

\* The driver function of `rec` returns `result`: the handler wraps it.
DriverReturns(rec, result) ==
    [rec EXCEPT !.pc = "done", !.drv = "returned", !.res = result,
                !.hnd = "returned", !.out = TextOf(result)]

\* A tool call arrives and its handler runs up to its first await.  `names` are
\* the item names (and search terms) callers use.
Receive(r, names) ==
    /\ req[r].pc = "idle"
    /\ \E t \in OrderingTools, valid \in BOOLEAN, name \in names \cup {Null} :
        LET rec == [IdleReq EXCEPT !.tool = t, !.hnd = "running"] IN
        CASE t = "order_food_item" ->
                /\ name # Null
                /\ IF ~valid
                     THEN \* OrderFoodItem.parse(args) throws, outside the try
                          Set(r, [rec EXCEPT !.pc = "done", !.hnd = "raised"])
                     ELSE \* orderFoodItem calls fs.mkdir and awaits it
                          Set(r, [rec EXCEPT !.pc = "mkdir", !.drv = "running",
                                             !.itemName = name])
          [] t = "browse_menu" ->
                IF ~valid
                  THEN name = Null /\ Set(r, [rec EXCEPT !.pc = "done", !.hnd = "raised"])
                  ELSE \* browseMenu calls initBrowser first; itemName holds `search`
                       Set(r, InitBrowserCheck([rec EXCEPT !.drv = "running",
                                                           !.itemName = name]))
          [] t = "get_cart" ->
                valid /\ name = Null
                    /\ Set(r, DriverReturns([rec EXCEPT !.drv = "running"], CartContents))
          [] t = "clear_cart" ->
                valid /\ name = Null
                    /\ Set(r, DriverReturns([rec EXCEPT !.drv = "running"], ClearCartResult))
          [] OTHER ->
                valid /\ name = Null
                    /\ Set(r, DriverReturns([rec EXCEPT !.drv = "running"], CheckoutResult))
    /\ UNCHANGED <<browser, page, launched, pagesCreated, gotos, loaded, googleVars, chatVars, matchVars>>

\* orderFoodItem: fs.mkdir(OUT_DIR) settles; on success initBrowser is entered.
Mkdir(r) ==
    /\ req[r].pc = "mkdir"
    /\ \E ok \in BOOLEAN :
        IF ok THEN Set(r, InitBrowserCheck(req[r]))
              ELSE Set(r, DriverRaises(req[r]))
    /\ UNCHANGED <<browser, page, launched, pagesCreated, gotos, loaded, googleVars, chatVars, matchVars>>

\* initBrowser: chromium.launch settles; on success the global is assigned and
\* browser.newContext() is called.
Launch(r) ==
    /\ req[r].pc = "launch"
    /\ \E ok \in BOOLEAN :
        IF ok
          THEN /\ launched' = launched + 1
               /\ browser' = launched + 1
               /\ Set(r, [req[r] EXCEPT !.pc = "newContext", !.launches = @ + 1])
          ELSE /\ Set(r, DriverRaises(req[r]))
               /\ UNCHANGED <<browser, launched, googleVars, chatVars, matchVars>>
    /\ UNCHANGED <<page, pagesCreated, gotos, loaded, googleVars, chatVars, matchVars>>

\* initBrowser: browser.newContext() settles; on success context.newPage() is called.
NewContext(r) ==
    /\ req[r].pc = "newContext"
    /\ \E ok \in BOOLEAN :
        IF ok THEN Set(r, [req[r] EXCEPT !.pc = "newPage"])
              ELSE Set(r, DriverRaises(req[r]))
    /\ UNCHANGED <<browser, page, launched, pagesCreated, gotos, loaded, googleVars, chatVars, matchVars>>

\* initBrowser: context.newPage() settles; on success the global page is
\* assigned and page.goto(TARGET_URL) is called.
NewPage(r) ==
    /\ req[r].pc = "newPage"
    /\ \E ok \in BOOLEAN :
        IF ok
          THEN /\ pagesCreated' = pagesCreated + 1
               /\ page' = pagesCreated + 1
               /\ gotos' = gotos + 1
               /\ Set(r, [req[r] EXCEPT !.pc = "goto", !.lastAct = "goto",
                                         !.made = pagesCreated + 1])
          ELSE /\ Set(r, DriverRaises(req[r]))
               /\ UNCHANGED <<page, pagesCreated, gotos, googleVars, chatVars, matchVars>>
    /\ UNCHANGED <<browser, launched, loaded, googleVars, chatVars, matchVars>>

\* initBrowser: page.goto settles; on success page.waitForTimeout(3000) is called.
Goto(r) ==
    /\ req[r].pc = "goto"
    /\ \E ok \in BOOLEAN :
        IF ok THEN /\ Set(r, [req[r] EXCEPT !.pc = "settle", !.lastAct = "waitForTimeout"])
                   /\ loaded' = loaded \cup {req[r].made}
              ELSE /\ Set(r, DriverRaises(req[r]))
                   /\ UNCHANGED loaded
    /\ UNCHANGED <<browser, page, launched, pagesCreated, gotos, googleVars, chatVars, matchVars>>

\* initBrowser: the settle delay elapses (or the page is gone) and initBrowser returns.
Settle(r) ==
    /\ req[r].pc = "settle"
    /\ \E ok \in BOOLEAN :
        IF ok THEN Set(r, [req[r] EXCEPT !.pc = "body"])
              ELSE Set(r, DriverRaises(req[r]))
    /\ UNCHANGED <<browser, page, launched, pagesCreated, gotos, loaded, googleVars, chatVars, matchVars>>

\* findAndClickItem's candidate text of an element: name || text || ""
\* findAndClickItem's selectors, in the order of its list.
Selectors ==
    << "new-menufy-item-card", ".item-wrapper", ".item-link", "[item-name]",
       "div[class*='item']" >>

\* A mutation of the selector loop: the list is gone through from its end.
SelectorAt_Reversed(k) == Selectors[NumSelectors + 1 - k]

\* The selector the k-th round of `for (const selector of selectors)` queries.
SelectorAt(k) == Selectors[k]

CandidateText(el) == OrElse(el.name, OrElse(el.text, <<>>))

\* orderFoodItem after findAndClickItem returned `result` without success:
\* the modal flow is skipped and takeScreenshot(page, "item-clicked") is called.
FindFailed(rec, result) ==
    [rec EXCEPT !.pc = "shot", !.fres = result, !.lastAct = "screenshot", !.sel = 0]

\* A mutation of the candidate loop: it ends at the first candidate passed over.
NextCandidate_GiveUp(rec) == FindFailed(rec, ItemNotFound(rec.itemName))

\* findAndClickItem's loop moves past candidate rec.idx: the next candidate's
\* attribute is read, or the loop ends with the item not found.
NextCandidate(rec) ==
    IF rec.idx < Len(rec.menuItems)
      THEN [rec EXCEPT !.pc = "read", !.idx = @ + 1, !.lastAct = "getAttribute"]
      ELSE FindFailed(rec, ItemNotFound(rec.itemName))

\* orderFoodItem's / browseMenu's catch block is entered from the try.
\* orderFoodItem calls takeScreenshot(page, "click-error"); browseMenu returns [].
Caught(rec) ==
    IF rec.tool = "order_food_item"
      THEN [rec EXCEPT !.pc = "errshot", !.lastAct = "screenshot", !.failed = TRUE,
                       !.sel = 0]
      ELSE DriverReturns([rec EXCEPT !.failed = TRUE], <<>>)

\* `await initBrowser()` resumes and the try block is entered.
Body(r) ==
    /\ req[r].pc = "body"
    /\ IF req[r].tool = "order_food_item"
         THEN IF page = 0
                THEN \* page.locator and then page.screenshot throw on null
                     Set(r, DriverRaises(req[r]))
                ELSE Set(r, [req[r] EXCEPT !.pc = "locate", !.sel = 1,
                                           !.lastAct = "locator"])
         ELSE IF page = 0
                THEN Set(r, Caught(req[r]))
                ELSE Set(r, [req[r] EXCEPT !.pc = "menu", !.lastAct = "locator"])
    /\ UNCHANGED <<browser, page, launched, pagesCreated, gotos, loaded, googleVars, chatVars, matchVars>>

\* findAndClickItem: page.locator(selectors[sel]).all() settles, with one of
\* `lists` when it resolves.
Locate(r, lists) ==
    /\ req[r].pc = "locate"
    /\ \/ Set(r, Caught(req[r]))
       \/ \E els \in lists :
            LET asked == [req[r] EXCEPT !.yields =
                            Append(@, [selector |-> SelectorAt(req[r].sel),
                                       count |-> Len(els)])]
            IN  IF Len(els) > 0
                  THEN \* the selector loop breaks and the candidate loop starts
                       Set(r, [asked EXCEPT !.pc = "read", !.menuItems = els, !.idx = 1,
                                            !.sel = 0, !.lastAct = "getAttribute"])
                  ELSE IF req[r].sel < NumSelectors
                         THEN Set(r, [asked EXCEPT !.sel = @ + 1])
                         ELSE Set(r, FindFailed(asked, NoMenuItems))
    /\ UNCHANGED <<browser, page, launched, pagesCreated, gotos, loaded, googleVars, chatVars, matchVars>>

\* findAndClickItem: getAttribute("item-name") and textContent() of candidate
\* idx settle; a match is clicked, anything else is passed over.
Read(r) ==
    /\ req[r].pc = "read"
    /\ \/ Set(r, Caught(req[r]))
       \/ IF isItemMatch(CandidateText(req[r].menuItems[req[r].idx]), req[r].itemName)
            THEN Set(r, [req[r] EXCEPT !.pc = "click", !.lastAct = "click",
                                       !.clickedAt = Append(@, req[r].idx)])
            ELSE Set(r, NextCandidate(req[r]))
    /\ UNCHANGED <<browser, page, launched, pagesCreated, gotos, loaded, googleVars, chatVars, matchVars>>

\* The steps of handleOrderModal and fillAddressForm, in the order of the code:
\* the wait for the modal, the Delivery and Update buttons, the wait for the
\* address form, its four fields, the Verify Address and Add to Cart buttons.
Chain ==
    << "modal", "delivery", "update", "address", "street", "apartment", "zipcode",
       "instructions", "verify", "cart" >>

\* The steps that wait for a selector, fill a field, go through a selector list.
WaitStages == {"modal", "address"}
FillStages == {"street", "apartment", "zipcode", "instructions"}
ButtonStages == {"delivery", "update", "verify", "cart"}

\* The selector lists of the four buttons: their lengths.
NumButtonSelectors(stage) == IF stage = "delivery" THEN 5 ELSE 6

\* A mutation of the step order: Add to Cart comes before the address fields.
StageAfter_CartFirst(stage) ==
    CASE stage = "address" -> "cart"
      [] stage = "cart" -> "street"
      [] stage = "instructions" -> "verify"
      [] stage = "verify" -> "none"
      [] OTHER -> Chain[(CHOOSE k \in 1..Len(Chain) : Chain[k] = stage) + 1]

\* The step the code goes on to after `stage`, "none" after the last.
StageAfter(stage) ==
    LET k == CHOOSE i \in 1..Len(Chain) : Chain[i] = stage
    IN  IF k < Len(Chain) THEN Chain[k + 1] ELSE "none"

\* The modal flow of `rec` calls the first page primitive of `stage`:
\* page.waitForSelector, page.fill, or page.locator(<first selector>).all()
Enter(rec, stage) ==
    [rec EXCEPT !.stage = stage, !.acts = Append(@, stage),
                !.pc = CASE stage \in WaitStages -> "wait"
                         [] stage \in FillStages -> "fill"
                         [] OTHER -> "query",
                !.sel = IF stage \in ButtonStages THEN 1 ELSE 0,
                !.lastAct = CASE stage \in WaitStages -> "waitForSelector"
                              [] stage \in FillStages -> "fill"
                              [] OTHER -> "locator"]

\* handleOrderModal returns to orderFoodItem, which calls
\* takeScreenshot(page, "item-clicked").
ModalReturns(rec) ==
    [rec EXCEPT !.pc = "shot", !.lastAct = "screenshot", !.sel = 0]

\* A mutation of the catch blocks: the error is thrown on to orderFoodItem.
ModalCaught_Rethrow(rec) == Caught([rec EXCEPT !.aborted = rec.pc])

\* The catch block of handleOrderModal or of fillAddressForm is entered from
\* the primitive awaited at rec.pc: the error is logged and the flow returns.
ModalCaught(rec) == ModalReturns([rec EXCEPT !.aborted = rec.pc])

\* The step of `rec` is over and the page.waitForTimeout after it is awaited.
Pause(rec) == [rec EXCEPT !.pc = "sleep", !.sel = 0, !.lastAct = "waitForTimeout"]

\* A mutation of the selector loops: a list that ends without a click is gone
\* through again from its first selector.
NextSelector_Again(rec) ==
    [rec EXCEPT !.pc = "query", !.lastAct = "locator",
                !.sel = IF @ < NumButtonSelectors(rec.stage) THEN @ + 1 ELSE 1]

\* A mutation of the selector loops: a list that ends without a click throws.
NextSelector_Strict(rec) ==
    IF rec.sel < NumButtonSelectors(rec.stage)
      THEN [rec EXCEPT !.pc = "query", !.sel = @ + 1, !.lastAct = "locator"]
      ELSE ModalCaught(rec)

\* A selector loop moves past selector rec.sel (nothing found, or the inner
\* catch logged a failure): the next selector is queried; after the last, the
\* Delivery step tries the radio button and the other steps just log.
NextSelector(rec) ==
    IF rec.sel < NumButtonSelectors(rec.stage)
      THEN [rec EXCEPT !.pc = "query", !.sel = @ + 1, !.lastAct = "locator"]
      ELSE IF rec.stage = "delivery"
             THEN [rec EXCEPT !.pc = "visible", !.sel = 0, !.lastAct = "isVisible"]
             ELSE Pause(rec)

\* The page primitives the modal flow awaits, by the position that awaits them.
ModalPrimitives == {"wait", "sleep", "query", "press", "visible", "radio", "fill"}

\* What the primitive `rec` awaits may do: succeed (TRUE) or fail (FALSE), as
\* `answers` allows for the step and the primitive.
Answers(rec, answers) == answers[<<rec.stage, rec.pc>>]

\* findAndClickItem: item.click() settles; a failed click is caught and the
\* loop continues.  After a click orderFoodItem enters handleOrderModal, which
\* waits for the modal.
Click(r) ==
    /\ req[r].pc = "click"
    /\ \E ok \in BOOLEAN :
        IF ok
          THEN Set(r, Enter([req[r] EXCEPT
                                !.fres = Clicked(req[r].menuItems[req[r].idx])],
                            "modal"))
          ELSE Set(r, NextCandidate(req[r]))
    /\ UNCHANGED <<browser, page, launched, pagesCreated, gotos, loaded, googleVars, chatVars, matchVars>>

\* handleOrderModal / fillAddressForm: page.waitForSelector(..., 10 s) settles;
\* a timeout goes to the catch block.
Modal(r, answers) ==
    /\ req[r].pc = "wait"
    /\ \E ok \in Answers(req[r], answers) :
        IF ok THEN Set(r, Pause([req[r] EXCEPT !.done = @ \cup {req[r].stage}]))
              ELSE Set(r, ModalCaught(req[r]))
    /\ UNCHANGED <<browser, page, launched, pagesCreated, gotos, loaded, googleVars, chatVars, matchVars>>

\* The page.waitForTimeout calls after a step settle: the next step of the
\* chain begins, or after the last fillAddressForm and handleOrderModal return.
Sleep(r, answers) ==
    /\ req[r].pc = "sleep"
    /\ \E ok \in Answers(req[r], answers) :
        IF ok
          THEN IF StageAfter(req[r].stage) = "none"
                 THEN Set(r, ModalReturns(req[r]))
                 ELSE Set(r, Enter(req[r], StageAfter(req[r].stage)))
          ELSE Set(r, ModalCaught(req[r]))
    /\ UNCHANGED <<browser, page, launched, pagesCreated, gotos, loaded, googleVars, chatVars, matchVars>>

\* A selector loop: page.locator(selector).all() settles; the first element
\* found is clicked, an empty list or a failure moves to the next selector.
Query(r, answers) ==
    /\ req[r].pc = "query"
    /\ \E found \in Answers(req[r], answers) :
        IF found THEN Set(r, [req[r] EXCEPT !.pc = "press", !.lastAct = "click"])
                 ELSE Set(r, NextSelector(req[r]))
    /\ UNCHANGED <<browser, page, launched, pagesCreated, gotos, loaded, googleVars, chatVars, matchVars>>

\* A selector loop: elements[0].click() settles; a click ends the loop, a
\* failure is caught inside the loop, which moves to the next selector.
Press(r, answers) ==
    /\ req[r].pc = "press"
    /\ \E ok \in Answers(req[r], answers) :
        IF ok THEN Set(r, Pause([req[r] EXCEPT !.done = @ \cup {req[r].stage}]))
              ELSE Set(r, NextSelector(req[r]))
    /\ UNCHANGED <<browser, page, launched, pagesCreated, gotos, loaded, googleVars, chatVars, matchVars>>

\* handleOrderModal, Delivery not clicked: radioButton.isVisible() settles.
Visible(r, answers) ==
    /\ req[r].pc = "visible"
    /\ \E answer \in IF FALSE \in Answers(req[r], answers)
                        THEN {"hidden", "throws"} \cup
                             (IF TRUE \in Answers(req[r], answers) THEN {"visible"} ELSE {})
                        ELSE {"visible"} :
        CASE answer = "visible" ->
                Set(r, [req[r] EXCEPT !.pc = "radio", !.lastAct = "click"])
          [] answer = "hidden" -> Set(r, Pause(req[r]))
          [] OTHER -> Set(r, ModalCaught(req[r]))
    /\ UNCHANGED <<browser, page, launched, pagesCreated, gotos, loaded, googleVars, chatVars, matchVars>>

\* handleOrderModal, Delivery not clicked: radioButton.click() settles; it is
\* outside the inner try, so a failure goes to the catch block.
Radio(r, answers) ==
    /\ req[r].pc = "radio"
    /\ \E ok \in Answers(req[r], answers) :
        IF ok THEN Set(r, Pause([req[r] EXCEPT !.done = @ \cup {req[r].stage}]))
              ELSE Set(r, ModalCaught(req[r]))
    /\ UNCHANGED <<browser, page, launched, pagesCreated, gotos, loaded, googleVars, chatVars, matchVars>>

\* fillAddressForm: page.fill of the field of the step settles; a failure
\* goes to the catch block.
Fill(r, answers) ==
    /\ req[r].pc = "fill"
    /\ \E ok \in Answers(req[r], answers) :
        IF ok THEN Set(r, Pause([req[r] EXCEPT !.done = @ \cup {req[r].stage}]))
              ELSE Set(r, ModalCaught(req[r]))
    /\ UNCHANGED <<browser, page, launched, pagesCreated, gotos, loaded, googleVars, chatVars, matchVars>>

\* orderFoodItem: the try block's page.screenshot settles.
Shot(r) ==
    /\ req[r].pc = "shot"
    /\ \E ok \in BOOLEAN :
        IF ok
          THEN Set(r, DriverReturns(
                        [req[r] EXCEPT !.captured = Append(@, ScreenshotPath("item-clicked"))],
                        OrderResult(req[r].itemName, req[r].fres,
                                    ScreenshotPath("item-clicked"))))
          ELSE Set(r, Caught(req[r]))
    /\ UNCHANGED <<browser, page, launched, pagesCreated, gotos, loaded, googleVars, chatVars, matchVars>>

\* orderFoodItem: the catch block's page.screenshot settles.
ErrShot(r) ==
    /\ req[r].pc = "errshot"
    /\ \E ok \in BOOLEAN :
        IF ok
          THEN Set(r, DriverReturns(
                        [req[r] EXCEPT !.captured = Append(@, ScreenshotPath("click-error"))],
                        OrderFailure(req[r].itemName, ScreenshotPath("click-error"))))
          ELSE Set(r, DriverRaises(req[r]))
    /\ UNCHANGED <<browser, page, launched, pagesCreated, gotos, loaded, googleVars, chatVars, matchVars>>

\* getMenuItems' item list for the candidates `els`: those with a name.
MenuItemsOf(els) ==
    LET Named(el) == ~Falsy(el.name)
        named == SelectSeq(els, Named)
    IN  [k \in 1..Len(named) |->
            [name |-> named[k].name, price |-> <<"0.00">>,
             description |-> named[k].text, category |-> <<"Unknown">>,
             available |-> TRUE]]

\* browseMenu's filter on `search`.
FilterMenu(items, search) ==
    LET Hit(item) ==
            \/ Includes(ToLower(item.name), ToLower(search))
            \/ (item.description # Null
                  /\ Includes(ToLower(item.description), ToLower(search)))
    IN  IF Falsy(search) THEN items ELSE SelectSeq(items, Hit)

\* browseMenu: getMenuItems(page) settles, with the elements of the first
\* selector that yields any (one of `lists`), and the filtered list is returned.
Menu(r, lists) ==
    /\ req[r].pc = "menu"
    /\ \/ Set(r, Caught(req[r]))
       \/ \E els \in lists :
            Set(r, DriverReturns(req[r], FilterMenu(MenuItemsOf(els), req[r].itemName)))
    /\ UNCHANGED <<browser, page, launched, pagesCreated, gotos, loaded, googleVars, chatVars, matchVars>>

\* The handler's result (or error) has been sent; the slot is free again.
Respond(r) ==
    /\ req[r].pc = "done"
    /\ Set(r, IdleReq)
    /\ UNCHANGED <<browser, page, launched, pagesCreated, gotos, loaded, googleVars, chatVars, matchVars>>

OrderingStep(r, lists, answers) ==
    \/ Mkdir(r) \/ Launch(r) \/ NewContext(r) \/ NewPage(r) \/ Goto(r) \/ Settle(r)
    \/ Body(r) \/ Locate(r, lists) \/ Read(r) \/ Click(r) \/ Modal(r, answers)
    \/ Sleep(r, answers) \/ Query(r, answers) \/ Press(r, answers) \/ Visible(r, answers)
    \/ Radio(r, answers) \/ Fill(r, answers) \/ Shot(r)
    \/ ErrShot(r) \/ Menu(r, lists) \/ Respond(r)

\* Some other tool call is between its arrival and its response.
Overlaps(r) == \E q \in Reqs \ {r} : req[q].pc # "idle"

(***************************************************************************)
(* The Google server: getAuth and the Calendar/Gmail tool handlers.        *)
(***************************************************************************)
GoogleTools ==
    {"list_calendars", "list_events", "create_event", "create_recurring_event",
     "list_emails", "get_email", "send_email", "search_emails"}

\* The handler of `tool` makes its remote call inside a try whose catch
\* returns the error as text.
RemoteCallGuarded(tool) == tool # "create_event"

\* The handler of `tool` calls getAuth inside such a try.
AuthGuarded(tool) == tool = "list_calendars"

\* The handler of `tool` parses its arguments against a schema.
ParsesArgs(tool) == tool # "list_calendars"

\* Bound: the words of a summary, over Vocabulary.
MaxWords == 2

\* Words (maximal runs of word characters) that summaries are made of.
Vocabulary ==
    {"Team", "standup", "meeting", "meetings", "deadline", "urgent", "party",
     "date", "Doctor", "gym", "workshop", "conference", "trip"}

\* Summaries: the texts over Vocabulary, and three longer event titles.
Texts ==
    UNION { [1..n -> Vocabulary] : n \in 0..MaxWords }
        \cup { <<"Team", "standup", "meeting">>, <<"Doctor", "appointment">>,
               <<"Weekend", "getaway", "trip">> }

\* Descriptions, where one is supplied.
Descriptions == { <<>>, <<"URGENT">> }

\* colorId, where one is supplied.
ColorIds == {"", "5"}

\* timeMin / timeMax, where supplied.
TimeTexts == {"", "2026-01-01T00:00:00Z"}

\* String.prototype.toLowerCase, on the words used here.
LowerWord(w) ==
    CASE w = "Team" -> "team" [] w = "Doctor" -> "doctor"
      [] w = "Weekend" -> "weekend" [] w = "URGENT" -> "urgent"
      [] OTHER -> w

\* text.match(/\b(k1|k2|...)\b/): a whole word of the text is a keyword.
MatchesWord(text, keywords) == \E k \in 1..Len(text) : text[k] \in keywords

WorkKeywords ==
    {"work", "meeting", "call", "conference", "deadline", "project", "client",
     "business", "office", "interview", "presentation", "review", "standup",
     "sprint", "team", "manager", "boss", "hr", "hrs"}
SocialKeywords ==
    {"party", "social", "fun", "celebration", "birthday", "anniversary", "date",
     "romantic", "dinner", "movie", "show", "concert", "game", "gaming",
     "friends", "hangout", "drinks", "club", "bar"}
HealthKeywords ==
    {"gym", "workout", "exercise", "fitness", "run", "running", "yoga",
     "pilates", "swim", "cycling", "doctor", "medical", "appointment",
     "therapy", "dentist", "checkup", "health", "wellness", "massage", "spa"}
LearningKeywords ==
    {"study", "class", "course", "lesson", "workshop", "training", "seminar",
     "lecture", "school", "university", "college", "exam", "test", "homework",
     "assignment", "learning", "education", "book", "reading"}
TravelKeywords ==
    {"travel", "trip", "vacation", "flight", "airport", "hotel", "booking",
     "reservation", "holiday", "getaway"}

\* A mutation of the work branch: the deadline rule tested before the meeting rule.
WorkColor_DeadlineFirst(text) ==
    IF MatchesWord(text, {"deadline", "urgent", "important", "critical"}) THEN "8"
    ELSE IF MatchesWord(text, {"meeting", "call", "conference", "standup", "presentation"})
      THEN "7"
    ELSE "9"

\* suggestColorId: the body of the work branch.
WorkColor(text) ==
    IF MatchesWord(text, {"meeting", "call", "conference", "standup", "presentation"})
      THEN "7"
    ELSE IF MatchesWord(text, {"deadline", "urgent", "important", "critical"}) THEN "8"
    ELSE "9"

\* suggestColorId: the body of the social branch.
SocialColor(text) ==
    IF MatchesWord(text, {"date", "romantic", "anniversary", "valentine"}) THEN "11"
    ELSE IF MatchesWord(text, {"movie", "show", "concert", "entertainment", "theater"})
      THEN "3"
    ELSE "4"

\* suggestColorId: the body of the health branch.
HealthColor(text) ==
    IF MatchesWord(text, {"doctor", "medical", "appointment", "therapy", "dentist",
                          "checkup", "health"})
      THEN "2"
    ELSE "10"

\* suggestColorId: the body of the learning branch.
LearningColor(text) ==
    IF MatchesWord(text, {"workshop", "conference", "seminar", "training"}) THEN "6"
    ELSE "5"

\* The words of `${summary} ${description || ''}`.toLowerCase(); description
\* is <<"undefined">> where the caller gave none.
ColorText(summary, description) ==
    LET joined == summary \o (IF description = <<"undefined">> THEN <<>> ELSE description)
    IN  [k \in 1..Len(joined) |-> LowerWord(joined[k])]

\* A mutation of suggestColorId: the health category tested first.
suggestColorId_HealthFirst(summary, description) ==
    LET text == ColorText(summary, description) IN
    IF MatchesWord(text, HealthKeywords) THEN HealthColor(text)
    ELSE IF MatchesWord(text, WorkKeywords) THEN WorkColor(text)
    ELSE IF MatchesWord(text, SocialKeywords) THEN SocialColor(text)
    ELSE IF MatchesWord(text, LearningKeywords) THEN LearningColor(text)
    ELSE IF MatchesWord(text, TravelKeywords) THEN "7"
    ELSE "1"

suggestColorId(summary, description) ==
    LET text == ColorText(summary, description) IN
    IF MatchesWord(text, WorkKeywords) THEN WorkColor(text)
    ELSE IF MatchesWord(text, SocialKeywords) THEN SocialColor(text)
    ELSE IF MatchesWord(text, HealthKeywords) THEN HealthColor(text)
    ELSE IF MatchesWord(text, LearningKeywords) THEN LearningColor(text)
    ELSE IF MatchesWord(text, TravelKeywords) THEN "7"
    ELSE "1"

EventTools == {"create_event", "create_recurring_event"}

\* Valid arguments of create_event / create_recurring_event, as far as the
\* colour goes: a summary, and optionally a description and a colorId.
EventArgs ==
    { [f \in {"summary"} \cup opt |->
            CASE f = "summary" -> sm [] f = "description" -> d [] OTHER -> c] :
        sm \in Texts, opt \in SUBSET {"description", "colorId"},
        d \in Descriptions, c \in ColorIds }

\* Valid arguments of list_events: a calendarId and optionally timeMin, timeMax.
ListArgs ==
    { [f \in {"calendarId"} \cup opt |->
            CASE f = "calendarId" -> "primary" [] f = "timeMin" -> a [] OTHER -> b] :
        opt \in SUBSET {"timeMin", "timeMax"}, a \in TimeTexts, b \in TimeTexts }

\* Rule strings callers supply as `recurrence` (any string passes the schema),
\* as sequences of pieces: a rule, the empty string, a rule that already
\* carries the prefix, and text that is no rule.
RuleTexts ==
    { <<"FREQ=WEEKLY;COUNT=10">>, <<>>, <<"RRULE:", "FREQ=DAILY">>, <<"every other day">> }

\* Valid arguments of create_recurring_event: those of an event and a rule.
RecurringArgs ==
    { [f \in DOMAIN a \cup {"recurrence"} |->
            IF f = "recurrence" THEN rule ELSE a[f]] :
        a \in EventArgs, rule \in RuleTexts }

\* The arguments a call of `tool` may carry once they passed the schema; the
\* arguments of the other tools are not modelled.
ArgsFor(tool) ==
    CASE tool = "create_event" -> EventArgs
      [] tool = "create_recurring_event" -> RecurringArgs
      [] tool = "list_events" -> ListArgs
      [] OTHER -> { <<>> }

\* parsed.field where the field is optional: undefined when not supplied.
Opt(args, field, undefined) == IF field \in DOMAIN args THEN args[field] ELSE undefined

\* The event the create handlers build: colorId is parsed.colorId ||
\* suggestColorId(...), description is set only when truthy.
EventBody(args) ==
    LET description == Opt(args, "description", <<"undefined">>)
        supplied == Opt(args, "colorId", "")
        colorId == IF supplied # "" THEN supplied
                   ELSE suggestColorId(args.summary, description)
        truthy == description # <<"undefined">> /\ description # <<>>
    IN  [f \in {"summary", "colorId"} \cup (IF truthy THEN {"description"} ELSE {}) |->
            CASE f = "summary" -> args.summary [] f = "colorId" -> colorId
              [] OTHER -> description]

\* A mutation of listParams: timeMin and timeMax always copied from parsed.
ListParams_Always(args) ==
    [calendarId |-> args.calendarId, maxResults |-> 10, singleEvents |-> TRUE,
     orderBy |-> "startTime", timeMin |-> Opt(args, "timeMin", "undefined"),
     timeMax |-> Opt(args, "timeMax", "undefined")]

\* listParams of list_events: timeMin / timeMax are added only when truthy.
ListParams(args) ==
    LET given == { f \in {"timeMin", "timeMax"} : Opt(args, f, "") # "" }
    IN  [f \in {"calendarId", "maxResults", "singleEvents", "orderBy"} \cup given |->
            CASE f = "calendarId" -> args.calendarId [] f = "maxResults" -> 10
              [] f = "singleEvents" -> TRUE [] f = "orderBy" -> "startTime"
              [] OTHER -> args[f]]

\* A mutation of the recurrence list: a rule that carries the prefix is sent as it is.
Recurrence_KeepPrefixed(rule) ==
    IF rule # <<>> /\ rule[1] = "RRULE:" THEN << rule >> ELSE << <<"RRULE:">> \o rule >>

\* create_recurring_event's recurrence list: [`RRULE:${parsed.recurrence}`]
Recurrence(rule) == << <<"RRULE:">> \o rule >>

\* The event create_recurring_event builds: that of create_event and the
\* recurrence list.
RecurringEventBody(args) ==
    LET event == EventBody(args)
    IN  [f \in DOMAIN event \cup {"recurrence"} |->
            IF f = "recurrence" THEN Recurrence(args.recurrence) ELSE event[f]]

\* What the handler of `tool` sends to the remote service.
UpstreamRequest(tool, args) ==
    CASE tool = "create_event" -> EventBody(args)
      [] tool = "create_recurring_event" -> RecurringEventBody(args)
      [] tool = "list_events" -> ListParams(args)
      [] OTHER -> [method |-> tool]

IdleGreq ==
    [pc |-> "idle", tool |-> "none", valid |-> TRUE, args |-> <<>>, sent |-> <<>>,
     saved |-> "pending", consent |-> "none",
     fx |-> {}, hnd |-> "none", out |-> "none", remoteFailed |-> FALSE]

InitGoogle ==
    /\ tokenOk \in BOOLEAN
    /\ greq = IdleGreq

\* getAuth throws "Authentication failed: ...".
AuthFails(rec) ==
    IF AuthGuarded(rec.tool)
      THEN [rec EXCEPT !.pc = "done", !.hnd = "returned", !.out = "error text"]
      ELSE [rec EXCEPT !.pc = "done", !.hnd = "raised"]

\* getAuth returns a client and the handler makes its remote call.
AuthReturns(rec) ==
    [rec EXCEPT !.pc = "remote", !.fx = @ \cup {"remote request"},
                !.sent = UpstreamRequest(rec.tool, rec.args)]

\* A mutation of the handlers: getAuth is entered (the token file read) before
\* the arguments are parsed.
GEnter_AuthFirst(rec) ==
    IF ParsesArgs(rec.tool) /\ ~rec.valid
      THEN [rec EXCEPT !.pc = "done", !.hnd = "raised", !.fx = {"token read"}]
      ELSE [rec EXCEPT !.pc = "loadToken", !.fx = {"token read"}]

\* A handler up to its first await: Schema.parse(args), which throws on
\* arguments that do not fit, then getAuth up to fs.readFile(TOKEN_PATH).
GEnter(rec) ==
    IF ParsesArgs(rec.tool) /\ ~rec.valid
      THEN [rec EXCEPT !.pc = "done", !.hnd = "raised"]
      ELSE [rec EXCEPT !.pc = "loadToken", !.fx = {"token read"}]

\* A tool call arrives at the Google server.
GReceive ==
    /\ greq.pc = "idle"
    /\ \E t \in GoogleTools, v \in BOOLEAN :
        /\ ParsesArgs(t) \/ v
        /\ \E a \in (IF v THEN ArgsFor(t) ELSE { <<>> }) :
            greq' = GEnter([IdleGreq EXCEPT !.tool = t, !.valid = v, !.args = a,
                                            !.hnd = "running"])
    /\ UNCHANGED <<tokenOk, orderingVars, chatVars, matchVars>>

\* A mutation of getAuth: the consent flow is started whatever was loaded.
GLoadToken_AlwaysConsent ==
    /\ greq.pc = "loadToken"
    /\ greq' = [greq EXCEPT !.pc = "consent", !.fx = @ \cup {"consent"},
                            !.saved = IF tokenOk THEN "client" ELSE "null"]
    /\ UNCHANGED <<tokenOk, orderingVars, chatVars, matchVars>>

\* loadSavedCredentialsIfExist settles: the saved client, or null and the
\* consent flow (authenticate) is started.
GLoadToken ==
    /\ greq.pc = "loadToken"
    /\ IF tokenOk
         THEN greq' = AuthReturns([greq EXCEPT !.saved = "client"])
         ELSE greq' = [greq EXCEPT !.pc = "consent", !.fx = @ \cup {"consent"},
                                  !.saved = "null"]
    /\ UNCHANGED <<tokenOk, orderingVars, chatVars, matchVars>>

\* A mutation of getAuth: saveCredentials is never called.
GConsent_NoSave ==
    /\ greq.pc = "consent"
    /\ \E outcome \in {"rejected", "client", "client with refresh token"} :
        greq' = IF outcome = "rejected"
                  THEN AuthFails([greq EXCEPT !.consent = outcome])
                  ELSE AuthReturns([greq EXCEPT !.consent = outcome])
    /\ UNCHANGED <<tokenOk, orderingVars, chatVars, matchVars>>

\* authenticate settles: it rejects, or resolves with a client that has a
\* refresh token (saveCredentials is entered) or has none.
GConsent ==
    /\ greq.pc = "consent"
    /\ \E outcome \in {"rejected", "client", "client with refresh token"} :
        greq' = CASE outcome = "rejected" -> AuthFails([greq EXCEPT !.consent = outcome])
                  [] outcome = "client" -> AuthReturns([greq EXCEPT !.consent = outcome])
                  [] OTHER -> [greq EXCEPT !.pc = "readCreds", !.consent = outcome,
                                           !.fx = @ \cup {"credentials read"}]
    /\ UNCHANGED <<tokenOk, orderingVars, chatVars, matchVars>>

\* saveCredentials: credentials.json is read and checked for client_id and
\* client_secret; then fs.writeFile(TOKEN_PATH) is called.
GReadCreds ==
    /\ greq.pc = "readCreds"
    /\ \E ok \in BOOLEAN :
        greq' = IF ok THEN [greq EXCEPT !.pc = "writeToken", !.fx = @ \cup {"token write"}]
                      ELSE AuthFails(greq)
    /\ UNCHANGED <<tokenOk, orderingVars, chatVars, matchVars>>

\* saveCredentials: fs.writeFile(TOKEN_PATH) settles.
GWriteToken ==
    /\ greq.pc = "writeToken"
    /\ \E ok \in BOOLEAN :
        IF ok THEN tokenOk' = TRUE /\ greq' = AuthReturns(greq)
              ELSE greq' = AuthFails(greq) /\ UNCHANGED tokenOk
    /\ UNCHANGED <<orderingVars, chatVars, matchVars>>

\* The remote Calendar/Gmail call settles.
GRemote ==
    /\ greq.pc = "remote"
    /\ \E ok \in BOOLEAN :
        greq' = IF ok
                  THEN [greq EXCEPT !.pc = "done", !.hnd = "returned", !.out = "result text"]
                  ELSE IF RemoteCallGuarded(greq.tool)
                         THEN [greq EXCEPT !.pc = "done", !.hnd = "returned",
                                           !.out = "error text", !.remoteFailed = TRUE]
                         ELSE [greq EXCEPT !.pc = "done", !.hnd = "raised",
                                           !.remoteFailed = TRUE]
    /\ UNCHANGED <<tokenOk, orderingVars, chatVars, matchVars>>

\* The handler's outcome has been sent back.
GRespond ==
    /\ greq.pc = "done"
    /\ greq' = IdleGreq
    /\ UNCHANGED <<tokenOk, orderingVars, chatVars, matchVars>>

NextGoogle ==
    \/ GReceive \/ GLoadToken \/ GConsent \/ GReadCreds \/ GWriteToken
    \/ GRemote \/ GRespond

(***************************************************************************)
(* The chat loop of chat.ts.                                               *)
(***************************************************************************)
\* Bounds: user turns in a run, and tool calls in one assistant message.
MaxTurns == 2
MaxCalls == 2

\* What the user may type.
UserInputs ==
    { <<>>, <<" ">>, <<"e", "x", "i", "t">>, <<" ", "E", "x", "I", "T", " ">>,
      <<"h", "i">> }

ChatLowerChar(c) ==
    CASE c = "E" -> "e" [] c = "X" -> "x" [] c = "I" -> "i" [] c = "T" -> "t"
      [] OTHER -> c
ChatLower(s) == [k \in 1..Len(s) |-> ChatLowerChar(s[k])]

\* String.prototype.trim
RECURSIVE Trim(_)
Trim(s) ==
    IF s = <<>> THEN s
    ELSE IF Head(s) = " " THEN Trim(Tail(s))
    ELSE IF s[Len(s)] = " " THEN Trim(SubSeq(s, 1, Len(s) - 1))
    ELSE s

\* chatLoop's break condition on the user input.
IsExit(line) == Trim(line) = <<>> \/ ChatLower(Trim(line)) = <<"e", "x", "i", "t">>

\* The tool names the model asks for here: two of the ordering server, one of
\* the Google server and one that no server has.
CalledTools == {"order_food_item", "checkout", "list_events", "made_up_tool"}

\* tc.function.arguments as the model may emit it.
ArgTexts == {"", "{}", "{bad"}

\* One entry of msg.tool_calls, without its id.
ToolCallShapes ==
    { [type |-> "custom"] }
        \cup { [type |-> "function", name |-> "order_food_item", arguments |-> a] :
                    a \in ArgTexts }
        \cup { [type |-> "function", name |-> n, arguments |-> "{}"] :
                    n \in CalledTools \ {"order_food_item"} }

\* The id the model gives the k-th tool call of a message.
CallId(k) == k

\* msg.tool_calls as the model may emit it: 1..MaxCalls entries.
ToolCallLists == UNION { [1..n -> ToolCallShapes] : n \in 1..MaxCalls }

\* JSON.parse accepts the text.
ParsesAsJson(a) == a # "{bad"

\* A mutation of the routing test: only order_food_item is an ordering tool.
IsOrderingTool_OrderOnly(name) == name = "order_food_item"

\* chatLoop's routing test.
IsOrderingTool(name) ==
    name \in {"order_food_item", "browse_menu", "get_cart", "clear_cart", "checkout"}

SystemMessage == [role |-> "system"]

InitChat ==
    /\ cpc = "ask"
    /\ crash = "none"
    /\ turns = 0
    /\ history = << SystemMessage >>
    /\ msg = <<>>
    /\ ti = 0
    /\ toolResults = <<>>
    /\ callLog = <<>>
    /\ user = <<>>

\* A mutation of toolResults.push: the result is put in front.
PushResult_Front(results, m) == <<m>> \o results

\* toolResults.push(m)
PushResult(results, m) == Append(results, m)

\* text = content || "(no content)"
ReplyText(content) == IF content = "" THEN "(no content)" ELSE content

\* The for-loop over msg.tool_calls from entry k on, up to its next await (or
\* its end): entries that are not function calls are skipped, the arguments of
\* the next function call are parsed and callTool is invoked on the client the
\* name routes to.  After the last entry the message and the tool results are
\* pushed and the final completion is requested.
RECURSIVE RunToolCalls(_, _, _, _)
RunToolCalls(m, k, results, log) ==
    IF k > Len(m.tool_calls)
      THEN [cpc |-> "final", crash |-> "none", ti |-> 0,
            history |-> history \o <<m>> \o results, log |-> log]
    ELSE IF m.tool_calls[k].type # "function"
      THEN RunToolCalls(m, k + 1, results, log)
    ELSE IF m.tool_calls[k].arguments # "" /\ ~ParsesAsJson(m.tool_calls[k].arguments)
      THEN [cpc |-> "crashed", crash |-> "JSON.parse", ti |-> k,
            history |-> history, log |-> log]
    ELSE [cpc |-> "tool", crash |-> "none", ti |-> k, history |-> history,
          log |-> Append(log, [ev |-> "call", id |-> CallId(k),
                               client |-> IF IsOrderingTool(m.tool_calls[k].name)
                                            THEN "ordering" ELSE "google"])]

\* The user answers the prompt.
Ask ==
    /\ cpc = "ask"
    /\ \E line \in UserInputs :
        /\ user' = line
        /\ IF IsExit(line)
             THEN cpc' = "closed" /\ UNCHANGED <<turns, history>>
             ELSE /\ turns < MaxTurns
                  /\ cpc' = "model"
                  /\ turns' = turns + 1
                  /\ history' = Append(history, [role |-> "user", content |-> line])
    /\ msg' = <<>> /\ ti' = 0 /\ toolResults' = <<>> /\ callLog' = <<>>
    /\ UNCHANGED <<crash, orderingVars, googleVars, matchVars>>

\* The first completion settles: the request rejects; or there is no choice; or
\* the message has text only; or it carries tool calls.
Model ==
    /\ cpc = "model"
    /\ \/ /\ cpc' = "crashed" /\ crash' = "openai"
          /\ UNCHANGED <<history, msg, ti, callLog>>
       \/ /\ cpc' = "ask"
          /\ UNCHANGED <<crash, history, msg, ti, callLog>>
       \/ \E content \in {"", "text"} :
            /\ cpc' = "ask"
            /\ history' = Append(history, [role |-> "assistant",
                                           content |-> ReplyText(content)])
            /\ UNCHANGED <<crash, msg, ti, callLog>>
       \/ \E calls \in ToolCallLists :
            LET m == [role |-> "assistant",
                      tool_calls |-> [k \in 1..Len(calls) |->
                            [f \in DOMAIN calls[k] \cup {"id"} |->
                                IF f = "id" THEN CallId(k) ELSE calls[k][f]]]]
                run == RunToolCalls(m, 1, <<>>, <<>>)
            IN  /\ msg' = m
                /\ cpc' = run.cpc /\ crash' = run.crash /\ ti' = run.ti
                /\ history' = run.history /\ callLog' = run.log
    /\ UNCHANGED <<turns, user, toolResults, orderingVars, googleVars, matchVars>>

\* client.callTool settles for call ti: it rejects, or resolves with a result
\* (which may be one the server marked as an error); the loop goes on.
ToolDone ==
    /\ cpc = "tool"
    /\ \/ /\ cpc' = "crashed" /\ crash' = "callTool"
          /\ callLog' = Append(callLog, [ev |-> "rejected", id |-> msg.tool_calls[ti].id])
          /\ UNCHANGED <<history, ti, toolResults>>
       \/ \E result \in {"result", "isError result"} :
            LET results == PushResult(toolResults,
                                [role |-> "tool", tool_call_id |-> msg.tool_calls[ti].id,
                                 content |-> result])
                log == Append(callLog, [ev |-> "done", id |-> msg.tool_calls[ti].id])
                run == RunToolCalls(msg, ti + 1, results, log)
            IN  /\ toolResults' = results
                /\ cpc' = run.cpc /\ crash' = run.crash /\ ti' = run.ti
                /\ history' = run.history /\ callLog' = run.log
    /\ UNCHANGED <<turns, user, msg, orderingVars, googleVars, matchVars>>

\* The final completion settles: the request rejects, or its text is pushed.
Final ==
    /\ cpc = "final"
    /\ \/ /\ cpc' = "crashed" /\ crash' = "openai"
          /\ UNCHANGED history
       \/ \E content \in {"", "text"} :
            /\ cpc' = "ask"
            /\ history' = Append(history, [role |-> "assistant",
                                           content |-> ReplyText(content)])
            /\ UNCHANGED crash
    /\ UNCHANGED <<turns, user, msg, ti, toolResults, callLog, orderingVars, googleVars,
                    matchVars>>

NextChat == Ask \/ Model \/ ToolDone \/ Final

(***************************************************************************)
(* Specifications.                                                         *)
(***************************************************************************)
(***************************************************************************)
(* isItemMatch on its own, over the strings below.                         *)
(***************************************************************************)
\* Bound: the length of the short strings isItemMatch is called on.
MaxChars == 2

\* Menu texts and search terms: the short strings over "a", "B" and the
\* blank, and the sandwich names.
BaconEggCheese ==
    <<"B", "a", "c", "o", "n", ",", " ", "E", "g", "g", " ", "&", " ", "C",
      "h", "e", "e", "s", "e", " ", "S", "a", "n", "d", "w", "i", "c", "h">>
BECSandwich == <<"B", "E", "C", " ", "S", "a", "n", "d", "w", "i", "c", "h">>
BaconSandwich == <<"b", "a", "c", "o", "n", " ", "s", "a", "n", "d", "w", "i", "c", "h">>

MatchStrings ==
    UNION { [1..n -> {"a", "B", " "}] : n \in 0..MaxChars }
        \cup { BaconEggCheese, BECSandwich, BaconSandwich, <<"B", "a", "c", "o", "n">> }

InitMatch == matchCall = <<>>

\* isItemMatch is called and returns.
IsItemMatchCall ==
    /\ matchCall = <<>>
    /\ \E itemText \in MatchStrings, searchTerm \in MatchStrings :
        matchCall' = [itemText |-> itemText, searchTerm |-> searchTerm,
                      result |-> isItemMatch(itemText, searchTerm)]
    /\ UNCHANGED <<orderingVars, googleVars, chatVars>>

NextMatch == IsItemMatchCall

Init == InitOrdering /\ InitGoogle /\ InitChat /\ InitMatch

vars == <<browser, page, launched, pagesCreated, gotos, loaded, req, tokenOk, greq,
          cpc, crash, turns, history, msg, ti, toolResults, callLog, user, matchCall>>

\* A page on which every primitive of the modal flow may succeed or fail.
AnyPage ==
    [x \in (ButtonStages \cup WaitStages \cup FillStages) \X ModalPrimitives |-> BOOLEAN]

\* The pages where the modal flow is not what is looked at: the modal may not
\* appear, no selector finds the Delivery button, everything else is there.
PlainPage ==
    [x \in DOMAIN AnyPage |->
        CASE x[1] = "modal" -> BOOLEAN
          [] x = <<"delivery", "query">> -> {FALSE}
          [] OTHER -> {TRUE}]

\* The client awaits each call before the next: requests never overlap.
NextOrderingSeq ==
    \E r \in Reqs : \/ ~Overlaps(r) /\ Receive(r, ItemNames)
                    \/ OrderingStep(r, ElemLists, PlainPage)

\* What the page answers and what callers ask for where requests overlap.
RaceLists == { els \in ElemLists : Len(els) = 1 }
RaceNames == { <<"a", "a">> }

\* The server handles each request as it arrives: requests may overlap.
NextOrdering ==
    \E r \in Reqs : Receive(r, RaceNames) \/ OrderingStep(r, RaceLists, PlainPage)

\* Small menus: one element, or the same element several times.
FlowLists == { els \in ElemLists : Len(els) >= 1 /\ \A k \in 1..Len(els) : els[k] = els[1] }

\* One call at a time on a small menu, the modal flow on any page.
NextOrderFlow ==
    \E r \in Reqs : \/ ~Overlaps(r) /\ Receive(r, RaceNames)
                    \/ OrderingStep(r, FlowLists, AnyPage)

Next == NextOrderingSeq \/ NextGoogle \/ NextChat \/ NextMatch

\* The three processes side by side, the ordering server's calls one at a time.
Spec == Init /\ [][Next]_vars
\* The ordering server alone, its calls one at a time.
SpecOrderingSeq == Init /\ [][NextOrderingSeq]_vars
\* The ordering server alone, its calls overlapping.
SpecOrdering == Init /\ [][NextOrdering]_vars
\* The ordering server alone, its calls one at a time, the modal flow in full.
SpecOrderFlow == Init /\ [][NextOrderFlow]_vars
\* The same, every awaited primitive settling in finite time: a call that can
\* take a step eventually takes one.  Nothing obliges a client to call.
SpecOrderFlowFair ==
    SpecOrderFlow /\ WF_vars(\E r \in Reqs : OrderingStep(r, FlowLists, AnyPage))
\* The Google server alone.
SpecGoogle == Init /\ [][NextGoogle]_vars
\* The chat loop alone, the servers' answers as its environment.
SpecChat == Init /\ [][NextChat]_vars
\* isItemMatch alone.
SpecMatch == Init /\ [][NextMatch]_vars

(***************************************************************************)
(* Properties.                                                             *)
(***************************************************************************)
Done(r) == req[r].pc = "done"
StubTools == {"get_cart", "clear_cart", "checkout"}

\* C1 (as stated): each stub operation (get_cart, clear_cart, checkout)
\* returns, without raising, a result that carries success = false and an
\* explanatory message.
C1_StubsReportFailure ==
    \A r \in Reqs : (Done(r) /\ req[r].tool \in StubTools) =>
        /\ req[r].drv = "returned" /\ req[r].hnd = "returned"
        /\ "success" \in DOMAIN req[r].res /\ req[r].res.success = FALSE
        /\ "message" \in DOMAIN req[r].res /\ req[r].res.message # <<>>

\* C1 (amended): each stub operation returns without raising, and its handler
\* returns that result as text; clear_cart and checkout return success = false
\* with a non-empty message; get_cart returns a placeholder cart (no success
\* field, no message field: itemCount 0, total "0.00" and the explanatory text
\* as its only item).
C1_StubResults ==
    \A r \in Reqs : (Done(r) /\ req[r].tool \in StubTools) =>
        /\ req[r].drv = "returned" /\ req[r].hnd = "returned"
        /\ req[r].out = TextOf(req[r].res)
        /\ req[r].tool \in {"clear_cart", "checkout"} =>
                /\ req[r].res.success = FALSE
                /\ req[r].res.message # <<>>
        /\ req[r].tool = "get_cart" =>
                /\ DOMAIN req[r].res = {"items", "total", "itemCount"}
                /\ req[r].res.itemCount = 0
                /\ Len(req[r].res.items) = 1 /\ req[r].res.items[1] # <<>>

\* C1 witness: clear_cart has returned on a server that launched its browser
\* in an earlier operation.
C1_Witness ==
    \E r \in Reqs : Done(r) /\ req[r].tool = "clear_cart" /\ browser # 0

\* C2 (as stated): no exception propagates from orderFoodItem or browseMenu to
\* the tool handler, and when a step failed the result returned carries
\* success = false and an error string.
C2_DriverNeverRaises ==
    \A r \in Reqs : req[r].tool \in {"order_food_item", "browse_menu"} =>
        /\ req[r].drv # "raised"
        /\ (req[r].drv = "returned" /\ req[r].failed) =>
                /\ req[r].tool = "order_food_item"
                /\ req[r].res.success = FALSE
                /\ "error" \in DOMAIN req[r].res

\* C3 (as stated): when the remote call of a Calendar/Gmail operation fails,
\* the handler returns a text result describing the error; it does not raise.
C3_RemoteFailureIsText ==
    greq.remoteFailed => (greq.hnd = "returned" /\ greq.out = "error text")

\* C4 (as stated): no outcome of a tool call makes the chat process end
\* abnormally: neither arguments that are not JSON nor a rejected callTool.
C4_ToolFailureSurvives == crash \notin {"JSON.parse", "callTool"}

\* C5 (as stated): every top-level operation of the ordering driver that
\* returns has captured a screenshot as its last page action and returns the
\* path of the captured file.
C5_EveryOperationShoots ==
    \A r \in Reqs : (Done(r) /\ req[r].drv = "returned") =>
        /\ req[r].lastAct = "screenshot"
        /\ Len(req[r].captured) > 0
        /\ req[r].tool # "browse_menu"
        /\ "screenshot" \in DOMAIN req[r].res
        /\ req[r].res.screenshot = req[r].captured[Len(req[r].captured)]

\* C5 (amended): only order_food_item captures a screenshot: whenever it
\* returns a result, the screenshot is its last page action, exactly one file
\* was captured and the result holds that file's path.  browse_menu, get_cart
\* and clear_cart capture nothing and return no path; checkout captures
\* nothing and returns the placeholder path "no-screenshot.png".
C5_OrderShoots ==
    \A r \in Reqs : (Done(r) /\ req[r].drv = "returned") =>
        IF req[r].tool = "order_food_item"
          THEN /\ req[r].lastAct = "screenshot"
               /\ Len(req[r].captured) = 1
               /\ req[r].res.screenshot = req[r].captured[1]
               /\ req[r].res.screenshot # <<>>
          ELSE /\ req[r].captured = <<>>
               /\ req[r].lastAct # "screenshot"
               /\ req[r].tool \in {"get_cart", "clear_cart"} =>
                        "screenshot" \notin DOMAIN req[r].res
               /\ req[r].tool = "checkout" =>
                        req[r].res.screenshot = <<"no-screenshot.png">>

\* C5 witness: order_food_item has returned from its catch block, the failure
\* screenshot taken.
C5_Witness ==
    \E r \in Reqs :
        /\ Done(r) /\ req[r].tool = "order_food_item" /\ req[r].drv = "returned"
        /\ req[r].failed
        /\ req[r].res.screenshot = ScreenshotPath("click-error")

\* The item name of `rec` matches no element of the candidate set its search
\* went through.
NoCandidateMatches(rec) ==
    \A k \in 1..Len(rec.menuItems) :
        ~isItemMatch(CandidateText(rec.menuItems[k]), rec.itemName)

\* C6 (as stated): order_food_item for a name that matches no candidate
\* returns, and does not raise, a result with found = false, success = false
\* and a non-empty screenshot path.
C6_AbsentItemReported ==
    \A r \in Reqs :
        ( /\ Done(r) /\ req[r].tool = "order_food_item"
          /\ req[r].fres # <<>> /\ NoCandidateMatches(req[r]) ) =>
            /\ req[r].drv = "returned"
            /\ req[r].res.found = FALSE
            /\ req[r].res.success = FALSE
            /\ req[r].res.screenshot # <<>>

\* C7: a Calendar/Gmail call whose arguments fail the schema ends raised with
\* no effect: no token read, no consent, no credentials read, no token write
\* and no remote request.
C7_InvalidArgsNoEffect ==
    (greq.pc # "idle" /\ ParsesArgs(greq.tool) /\ ~greq.valid) =>
        /\ greq.pc = "done"
        /\ greq.hnd = "raised"
        /\ greq.fx = {}

\* C7 witness: send_email with invalid arguments has been rejected.
C7_Witness ==
    greq.pc = "done" /\ greq.tool = "send_email" /\ ~greq.valid

\* The ids of the function-type entries of m.tool_calls, in order.
FunctionCallIds(m) ==
    LET IsFunction(tc) == tc.type = "function"
        fns == SelectSeq(m.tool_calls, IsFunction)
    IN  [k \in 1..Len(fns) |-> fns[k].id]

\* C8: within a turn the function calls run one at a time in the order of
\* msg.tool_calls: callTool for a call is invoked only after the call before it
\* has completed; the tool results are collected, and pushed to the
\* conversation behind the assistant message, in that order.
C8_SequentialInOrder ==
    msg # <<>> =>
        LET ids == FunctionCallIds(msg) IN
        /\ Len(callLog) <= 2 * Len(ids)
        /\ \A k \in 1..Len(callLog) :
                /\ callLog[k].id = ids[(k + 1) \div 2]
                /\ callLog[k].ev = IF k % 2 = 1 THEN "call"
                                   ELSE IF k = Len(callLog) /\ crash = "callTool"
                                          THEN "rejected" ELSE "done"
        /\ Len(toolResults) =
                Cardinality({k \in 1..Len(callLog) : callLog[k].ev = "done"})
        /\ \A j \in 1..Len(toolResults) : toolResults[j].tool_call_id = ids[j]
        /\ cpc = "final" =>
                /\ Len(toolResults) = Len(ids)
                /\ SubSeq(history, Len(history) - Len(toolResults), Len(history))
                        = <<msg>> \o toolResults

\* C8 witness: two function calls of one message have both completed.
C8_Witness ==
    cpc = "final" /\ Len(toolResults) = 2 /\ Len(callLog) = 4

\* C9: with calls one at a time, at most one browser is launched, at most one
\* page created and the target URL navigated at most once; a call that finds
\* a browser launches nothing and leaves browser and page as it found them.
C9_InitIdempotent ==
    /\ launched <= 1 /\ pagesCreated <= 1 /\ gotos <= 1
    /\ \A r \in Reqs : req[r].sawBrowser > 0 =>
            /\ req[r].launches = 0
            /\ browser = req[r].sawBrowser
            /\ page = req[r].sawPage

\* C9 witness: an order_food_item call that found the session of an earlier
\* call has returned.
C9_Witness ==
    \E r \in Reqs :
        /\ Done(r) /\ req[r].tool = "order_food_item" /\ req[r].drv = "returned"
        /\ req[r].sawBrowser = 1 /\ req[r].sawPage = 1

\* C10 (as stated): under every interleaving of ordering requests at most one
\* browser is launched and at most one page created.
C10_OneBrowser == launched <= 1 /\ pagesCreated <= 1

\* C10 (amended): nothing guards the session against overlapping requests.  A
\* request launches a browser only if its own check found the handle null,
\* and a request whose check found a browser launches none; so every request
\* that is in flight before the first launch resolves may launch a browser
\* and create a page of its own, the handle keeping the latest.
C10_LaunchOnlyFromNull ==
    /\ \A r \in Reqs :
            /\ req[r].pc \in {"launch", "newContext", "newPage", "goto", "settle"}
                    => req[r].sawBrowser = 0
            /\ req[r].launches > 0 => req[r].sawBrowser = 0
            /\ req[r].sawBrowser > 0 => req[r].launches = 0
            /\ req[r].launches <= 1
    /\ pagesCreated <= launched
    /\ browser = launched
    /\ page = pagesCreated

\* C10 witness: two overlapping requests have each launched a browser.
C10_Witness ==
    /\ launched = 2
    /\ \A r \in {1, 2} : req[r].launches = 1

\* The words of the lower-cased title+description text of the call in flight.
EventText ==
    ColorText(greq.args.summary, Opt(greq.args, "description", <<"undefined">>))

\* The call in flight is a create call that supplied no colorId and whose
\* event has been built for the remote request.
ColorSuggested ==
    /\ greq.tool \in EventTools /\ greq.sent # <<>>
    /\ "colorId" \notin DOMAIN greq.args

\* C11: for a text that contains a work keyword as a whole word, whatever its
\* case, the suggested colour is 7 if the text contains meeting, call,
\* conference, standup or presentation, else 8 if it contains deadline, urgent,
\* important or critical, else 9; "Team standup meeting" gives 7.
C11_WorkColors ==
    ColorSuggested =>
        /\ MatchesWord(EventText, WorkKeywords) =>
                /\ greq.sent.colorId \in {"7", "8", "9"}
                /\ greq.sent.colorId =
                     IF \E w \in {"meeting", "call", "conference", "standup",
                                  "presentation"} : MatchesWord(EventText, {w})
                       THEN "7"
                     ELSE IF \E w \in {"deadline", "urgent", "important", "critical"} :
                                MatchesWord(EventText, {w})
                       THEN "8"
                     ELSE "9"
        /\ greq.args.summary = <<"Team", "standup", "meeting">> =>
                greq.sent.colorId = "7"

\* C11 witness: create_event for "Team standup meeting" with no colorId has
\* built its event with colour 7.
C11_Witness ==
    /\ greq.pc = "remote" /\ greq.tool = "create_event"
    /\ greq.args = [summary |-> <<"Team", "standup", "meeting">>]
    /\ greq.sent.colorId = "7"

\* The first category, in the order work, social, health, learning, travel,
\* that has a keyword in the text.
FirstCategory(text) ==
    IF MatchesWord(text, WorkKeywords) THEN "work"
    ELSE IF MatchesWord(text, SocialKeywords) THEN "social"
    ELSE IF MatchesWord(text, HealthKeywords) THEN "health"
    ELSE IF MatchesWord(text, LearningKeywords) THEN "learning"
    ELSE IF MatchesWord(text, TravelKeywords) THEN "travel"
    ELSE "none"

\* C12: with no colorId supplied to create_event or create_recurring_event the
\* colour sent upstream is one of the first matching category in the order
\* work, social, health, learning, travel: work 7/8/9, social 4/11/3, health
\* 2/10, learning 5/6, travel 7, and 1 when nothing matches (the empty text
\* included); "Doctor appointment" gives 2 and "Weekend getaway trip" gives 7.
C12_FirstCategoryWins ==
    ColorSuggested =>
        /\ greq.sent.colorId \in
             CASE FirstCategory(EventText) = "work" -> {"7", "8", "9"}
               [] FirstCategory(EventText) = "social" -> {"4", "11", "3"}
               [] FirstCategory(EventText) = "health" -> {"2", "10"}
               [] FirstCategory(EventText) = "learning" -> {"5", "6"}
               [] FirstCategory(EventText) = "travel" -> {"7"}
               [] OTHER -> {"1"}
        /\ greq.args = [summary |-> <<"Doctor", "appointment">>] => greq.sent.colorId = "2"
        /\ greq.args = [summary |-> <<"Weekend", "getaway", "trip">>] =>
                greq.sent.colorId = "7"
        /\ EventText = <<>> => greq.sent.colorId = "1"

\* C12 witness: create_recurring_event with no colorId, for a text with a
\* social and a health keyword, has built its event with a social colour.
C12_Witness ==
    /\ greq.pc = "remote" /\ greq.tool = "create_recurring_event"
    /\ ColorSuggested
    /\ MatchesWord(EventText, SocialKeywords) /\ MatchesWord(EventText, HealthKeywords)
    /\ ~MatchesWord(EventText, WorkKeywords)
    /\ greq.sent.colorId \in {"4", "11", "3"}

\* C13: the list_events request holds timeMin (timeMax) only if the caller
\* supplied it, then with the caller's value; where the caller omitted it the
\* field is absent from the request, neither null nor an empty string.
C13_TimeBoundsOnlyIfSupplied ==
    (greq.tool = "list_events" /\ greq.sent # <<>>) =>
        \A f \in {"timeMin", "timeMax"} :
            /\ f \in DOMAIN greq.sent =>
                    /\ f \in DOMAIN greq.args
                    /\ greq.sent[f] = greq.args[f]
                    /\ greq.sent[f] \notin {"", "undefined", "null"}
            /\ f \notin DOMAIN greq.args => f \notin DOMAIN greq.sent

\* C13 witness: list_events with timeMin supplied and timeMax omitted has
\* built its request, timeMin in it.
C13_Witness ==
    /\ greq.pc = "remote" /\ greq.tool = "list_events"
    /\ "timeMin" \in DOMAIN greq.sent
    /\ "timeMax" \notin DOMAIN greq.args

\* `hay` has `needle` as a contiguous part.
HasPart(hay, needle) ==
    \E i \in 1..(Len(hay) + 1) :
        /\ i + Len(needle) - 1 <= Len(hay)
        /\ SubSeq(hay, i, i + Len(needle) - 1) = needle

\* C14: isItemMatch is true exactly when, both strings lower-cased, the text
\* has the search term as a part or the search term has the text as a part;
\* "Bacon, Egg & Cheese Sandwich" and "BEC Sandwich" do not match the search
\* term "bacon sandwich".
C14_MatchIsTwoWayContainment ==
    matchCall # <<>> =>
        /\ matchCall.result =
             ( \/ HasPart(ToLower(matchCall.itemText), ToLower(matchCall.searchTerm))
               \/ HasPart(ToLower(matchCall.searchTerm), ToLower(matchCall.itemText)) )
        /\ ( /\ matchCall.searchTerm = BaconSandwich
             /\ matchCall.itemText \in {BaconEggCheese, BECSandwich} )
                => matchCall.result = FALSE

\* C14 witness: isItemMatch has returned false for "BEC Sandwich" against
\* "bacon sandwich".
C14_Witness ==
    /\ matchCall # <<>>
    /\ matchCall.searchTerm = BaconSandwich
    /\ matchCall.itemText = BECSandwich
    /\ matchCall.result = FALSE

\* The line is empty once trimmed, or is "exit" once trimmed and lower-cased.
ExitLine(line) ==
    \/ \A k \in 1..Len(line) : line[k] = " "
    \/ \E i, j \in 1..Len(line) :
        /\ \A k \in 1..Len(line) : (k < i \/ k > j) => line[k] = " "
        /\ j - i = 3
        /\ line[i] \in {"e", "E"} /\ line[i + 1] \in {"x", "X"}
        /\ line[i + 2] \in {"i", "I"} /\ line[i + 3] \in {"t", "T"}

\* C15 (as stated): the chat loop ends when and only when the line typed is
\* empty once trimmed or is "exit" in any case with blanks around it; on such
\* a line nothing is appended to the conversation and no model request or
\* tool call is made; on every other line the turn is processed and the loop
\* prompts again, so nothing else ends it.
C15_EndsOnlyOnExitLine ==
    /\ cpc = "closed" =>
            /\ ExitLine(user)
            /\ history[Len(history)].role \in {"system", "assistant"}
            /\ callLog = <<>>
    /\ cpc \in {"model", "tool", "final"} => ~ExitLine(user)
    /\ cpc # "crashed"

\* getAuth has returned a credential to the handler in flight.
AuthReturned == greq.sent # <<>>

\* C16: the cached token is tried first: consent is started only in an
\* invocation whose load of the token file failed; when the load succeeds the
\* invocation returns that credential with no consent, no read of the
\* credentials file and no write of the token file.
C16_CachedTokenFirst ==
    /\ greq.fx \ {"token read"} # {} => greq.saved # "pending"
    /\ "consent" \in greq.fx => greq.saved = "null"
    /\ greq.saved = "client" =>
            /\ AuthReturned
            /\ greq.consent = "none"
            /\ greq.fx \cap {"consent", "credentials read", "token write"} = {}

\* C16 witness: an invocation that loaded the cached token has returned it and
\* the handler's remote call has been answered.
C16_Witness ==
    /\ greq.pc = "done" /\ greq.saved = "client" /\ greq.hnd = "returned"
    /\ greq.fx = {"token read", "remote request"}

Dispatches == { k \in 1..Len(callLog) : callLog[k].ev = "call" }

\* C18: every function tool call of the message is dispatched to one backend,
\* chosen by its name: the ordering server if and only if the name is one of
\* order_food_item, browse_menu, get_cart, clear_cart, checkout, the Google
\* server for every other name; no call is dispatched twice, and when the
\* loop over the calls has ended every function call has been dispatched.
C18_RoutedByName ==
    msg # <<>> =>
        /\ \A k \in Dispatches :
            LET tc == msg.tool_calls[callLog[k].id] IN
            /\ tc.type = "function"
            /\ callLog[k].client \in {"ordering", "google"}
            /\ callLog[k].client = "ordering" <=>
                    tc.name \in {"order_food_item", "browse_menu", "get_cart",
                                 "clear_cart", "checkout"}
        /\ \A j, k \in Dispatches : callLog[j].id = callLog[k].id => j = k
        /\ cpc = "final" =>
                \A i \in 1..Len(msg.tool_calls) :
                    msg.tool_calls[i].type = "function" =>
                        \E k \in Dispatches : callLog[k].id = msg.tool_calls[i].id

\* C18 witness: in one turn checkout was dispatched to the ordering server
\* and a name no server has to the Google server.
C18_Witness ==
    /\ cpc = "final" /\ Len(msg.tool_calls) = 2
    /\ msg.tool_calls[1].type = "function" /\ msg.tool_calls[1].name = "checkout"
    /\ msg.tool_calls[2].type = "function" /\ msg.tool_calls[2].name = "made_up_tool"
    /\ callLog[1].client = "ordering" /\ callLog[3].client = "google"

\* The order_food_item calls in flight.
OrderCalls == { r \in Reqs : req[r].tool = "order_food_item" }

\* C19: the selectors are queried in the order of the list; the search goes
\* on to the next selector only when one yields no element and takes the
\* elements of the first that yields any as its candidates, no selector being
\* queried after it; when all of them yield nothing the search fails as not
\* found and nothing is clicked.
C19_FirstYieldingSelector ==
    \A r \in OrderCalls :
        LET y == req[r].yields IN
        /\ Len(y) <= NumSelectors
        /\ \A k \in 1..Len(y) : y[k].selector = Selectors[k]
        /\ \A k \in 1..(Len(y) - 1) : y[k].count = 0
        /\ req[r].menuItems # <<>> =>
                /\ Len(y) >= 1
                /\ y[Len(y)].count = Len(req[r].menuItems)
        /\ req[r].pc \in {"read", "click", "wait"} => req[r].menuItems # <<>>
        /\ (Len(y) = NumSelectors /\ \A k \in 1..Len(y) : y[k].count = 0) =>
                /\ req[r].menuItems = <<>>
                /\ req[r].fres = NoMenuItems
                /\ req[r].fres.found = FALSE /\ req[r].fres.success = FALSE
                /\ req[r].clickedAt = <<>>

\* C19 witness: a search whose first two selectors yielded nothing took the
\* elements of the third, and the call has returned.
C19_Witness ==
    \E r \in OrderCalls :
        /\ Done(r) /\ req[r].drv = "returned"
        /\ Len(req[r].yields) = 3 /\ req[r].yields[3].count > 0
        /\ req[r].yields[3].selector = ".item-link"

\* Candidate k of the search of `rec` matches the requested item.
Matches(rec, k) == isItemMatch(CandidateText(rec.menuItems[k]), rec.itemName)

\* The candidates of `rec` whose texts have been tested so far.
Examined(rec) == 1..(IF rec.pc = "read" THEN rec.idx - 1 ELSE rec.idx)

\* The search of `rec` is in its candidate loop or has returned.
InCandidates(rec) ==
    /\ rec.menuItems # <<>>
    /\ rec.pc \in {"read", "click"} \/ rec.fres # <<>>

\* C20 (as stated): the element clicked is the first candidate in DOM order
\* that matches the requested item: when the search succeeds exactly one
\* click was made, on the first matching candidate.
C20_FirstMatchIsTheOneClicked ==
    \A r \in OrderCalls :
        (InCandidates(req[r]) /\ req[r].fres # <<>> /\ req[r].fres.success) =>
            /\ req[r].clickedAt = << req[r].idx >>
            /\ \A k \in 1..(req[r].idx - 1) : ~Matches(req[r], k)

\* C20 (amended): click() is called on exactly the matching candidates, in DOM
\* order, up to the first whose click succeeds; a candidate matches by its
\* item-name attribute, or by its text where it has no item-name.  The
\* element reported as clicked is that candidate: no candidate that does not
\* match is clicked and none after it is examined.  If no candidate matches,
\* all are examined, nothing is clicked and the search fails with an error
\* that names the requested item.
C20_FirstClickableMatch ==
    \A r \in OrderCalls :
        InCandidates(req[r]) =>
            /\ { req[r].clickedAt[j] : j \in 1..Len(req[r].clickedAt) }
                    = { k \in Examined(req[r]) : Matches(req[r], k) }
            /\ \A i, j \in 1..Len(req[r].clickedAt) :
                    i < j => req[r].clickedAt[i] < req[r].clickedAt[j]
            /\ req[r].idx <= Len(req[r].menuItems)
            /\ (req[r].fres # <<>> /\ req[r].fres.success) =>
                    /\ req[r].clickedAt # <<>>
                    /\ req[r].clickedAt[Len(req[r].clickedAt)] = req[r].idx
                    /\ req[r].fres.found
                    /\ req[r].fres.clickedElement \in
                            { req[r].menuItems[req[r].idx].name,
                              req[r].menuItems[req[r].idx].text, <<"Unknown">> }
            /\ (req[r].fres # <<>> /\ ~req[r].fres.success) =>
                    /\ req[r].idx = Len(req[r].menuItems)
                    /\ req[r].fres.found = FALSE
                    /\ req[r].fres.error[2] = req[r].itemName
            /\ ( /\ req[r].fres # <<>>
                 /\ \A k \in 1..Len(req[r].menuItems) : ~Matches(req[r], k) ) =>
                    /\ req[r].clickedAt = <<>>
                    /\ ~req[r].fres.success

\* C20 witness: the click on the first matching candidate failed, the second
\* matching candidate was clicked and the search returned it.
C20_Witness ==
    \E r \in OrderCalls :
        /\ req[r].fres # <<>> /\ req[r].fres.success
        /\ req[r].clickedAt = <<1, 2>> /\ req[r].idx = 2

\* C21: when the click on a matching candidate fails the search does not
\* abort: it goes on to the next candidate in DOM order, which is clicked if
\* it matches, and the search gives up (item not found) only after the last
\* candidate has been examined.
C21_ClickFailureGoesOn ==
    /\ [][\A r \in OrderCalls :
            /\ (req[r].pc = "click" /\ req'[r].pc \notin {"click", "wait"}) =>
                    IF req[r].idx < Len(req[r].menuItems)
                      THEN /\ req'[r].pc = "read"
                           /\ req'[r].idx = req[r].idx + 1
                           /\ req'[r].fres = <<>>
                      ELSE /\ req'[r].pc = "shot"
                           /\ req'[r].fres = ItemNotFound(req[r].itemName)
            /\ (req[r].pc = "read" /\ req'[r].pc \notin {"read", "errshot"}
                                   /\ Matches(req[r], req[r].idx)) =>
                    /\ req'[r].pc = "click"
                    /\ req'[r].clickedAt = Append(req[r].clickedAt, req[r].idx)]_vars
    /\ [](\A r \in OrderCalls :
            (req[r].fres # <<>> /\ req[r].menuItems # <<>> /\ ~req[r].fres.success) =>
                /\ req[r].idx = Len(req[r].menuItems)
                /\ req[r].fres = ItemNotFound(req[r].itemName))

\* C21 witness: the clicks on both matching candidates failed, and the search
\* gave up after the second, the last candidate.
C21_Witness ==
    \E r \in OrderCalls :
        /\ req[r].fres = ItemNotFound(req[r].itemName)
        /\ Len(req[r].menuItems) = 2 /\ req[r].clickedAt = <<1, 2>>

\* The modal flow of `rec` was entered and has ended.
FlowOver(rec) == rec.acts # <<>> /\ rec.pc \notin ModalPrimitives

\* The steps of the modal flow that `rec` has begun.
Attempted(rec) == { rec.acts[k] : k \in 1..Len(rec.acts) }

\* C22 (as stated): every step of the modal flow is best-effort: whatever
\* step's control is missing or action fails, every later step of the chain
\* is still attempted, so a flow that has ended (the page still there for its
\* sleeps) has attempted all ten steps.
C22_EveryStepBestEffort ==
    \A r \in OrderCalls :
        (FlowOver(req[r]) /\ req[r].aborted # "sleep") =>
            Attempted(req[r]) = { Chain[k] : k \in 1..Len(Chain) }

\* C22 (amended): the four button steps are best-effort: a selector list
\* that finds nothing, or whose clicks fail, never ends the flow; the steps
\* are begun in chain order with none skipped, and a flow that ends outside a
\* catch block has begun them all.  The flow ends early, nothing after the
\* failing step being attempted, only in a catch block entered from a wait
\* for a selector, a field fill, the Delivery radio button (isVisible or
\* click) or a sleep.
C22_ButtonStepsBestEffort ==
    \A r \in OrderCalls :
        req[r].acts # <<>> =>
            /\ Len(req[r].acts) <= Len(Chain)
            /\ \A k \in 1..Len(req[r].acts) : req[r].acts[k] = Chain[k]
            /\ req[r].stage = req[r].acts[Len(req[r].acts)]
            /\ req[r].aborted \in {"none", "wait", "fill", "visible", "radio", "sleep"}
            /\ (FlowOver(req[r]) /\ req[r].aborted = "none") =>
                    Len(req[r].acts) = Len(Chain)
            /\ req[r].aborted # "none" => FlowOver(req[r])
            /\ req[r].aborted = "wait" =>
                    req[r].stage \in WaitStages /\ req[r].stage \notin req[r].done
            /\ req[r].aborted = "fill" =>
                    req[r].stage \in FillStages /\ req[r].stage \notin req[r].done
            /\ req[r].aborted \in {"visible", "radio"} =>
                    req[r].stage = "delivery" /\ "delivery" \notin req[r].done

\* C22 witness: none of the four buttons was clicked, and the flow went
\* through all ten steps and returned outside its catch blocks.
C22_Witness ==
    \E r \in OrderCalls :
        /\ FlowOver(req[r]) /\ req[r].aborted = "none"
        /\ req[r].done \cap ButtonStages = {}
        /\ FillStages \subseteq req[r].done
        /\ Len(req[r].acts) = Len(Chain)

\* The position of a step in the chain.
StageRank(stage) == CHOOSE k \in 1..Len(Chain) : Chain[k] = stage

\* C23: within one order_food_item call the page actions happen in the order
\* item click, modal wait, Delivery, Update, address form, street, apartment,
\* zipcode, instructions, Verify Address, Add to Cart: no step is begun before
\* one that precedes it in this order, no step of the modal flow is begun
\* unless the item click succeeded, and the Add to Cart step is begun only
\* after all four address fields have been filled.
C23_PageActionsInOrder ==
    \A r \in OrderCalls :
        /\ \A i, j \in 1..Len(req[r].acts) :
                i < j => StageRank(req[r].acts[i]) < StageRank(req[r].acts[j])
        /\ req[r].acts # <<>> =>
                /\ req[r].fres # <<>> /\ req[r].fres.success
                /\ req[r].clickedAt # <<>>
                /\ req[r].acts[1] = "modal"
        /\ (req[r].fres = <<>> \/ ~req[r].fres.success) =>
                req[r].acts = <<>> /\ req[r].done = {}
        /\ req[r].done \subseteq Attempted(req[r])
        /\ \A s \in Attempted(req[r]) \cap (FillStages \cup {"verify", "cart"}) :
                \A f \in FillStages :
                    StageRank(f) < StageRank(s) => f \in req[r].done
        /\ "cart" \in Attempted(req[r]) =>
                FillStages \subseteq req[r].done /\ "verify" \in Attempted(req[r])

\* C23 witness: a call went through the whole chain, every wait, click and
\* fill of it succeeding, Add to Cart last.
C23_Witness ==
    \E r \in OrderCalls :
        /\ FlowOver(req[r])
        /\ req[r].acts = Chain
        /\ req[r].done = Attempted(req[r])

\* C24: create_recurring_event sends a recurrence list of exactly one
\* element, the prefix "RRULE:" followed by the caller's rule string as it
\* came, whatever the string (empty, no rule at all, already prefixed); and
\* when the remote service rejects the request the handler returns an error
\* text and raises nothing.
C24_RuleWrappedUnchanged ==
    (greq.tool = "create_recurring_event" /\ AuthReturned) =>
        /\ greq.args.recurrence \in RuleTexts
        /\ Len(greq.sent.recurrence) = 1
        /\ Len(greq.sent.recurrence[1]) = Len(greq.args.recurrence) + 1
        /\ Head(greq.sent.recurrence[1]) = "RRULE:"
        /\ Tail(greq.sent.recurrence[1]) = greq.args.recurrence
        /\ greq.remoteFailed => (greq.hnd = "returned" /\ greq.out = "error text")

\* C24 witness: a rule that already carried the prefix was sent with the
\* prefix twice, the remote service rejected it and the handler returned the
\* error as text.
C24_Witness ==
    /\ greq.tool = "create_recurring_event" /\ AuthReturned
    /\ greq.args.recurrence = <<"RRULE:", "FREQ=DAILY">>
    /\ greq.sent.recurrence = << <<"RRULE:", "RRULE:", "FREQ=DAILY">> >>
    /\ greq.remoteFailed /\ greq.hnd = "returned"

\* C25: every order_food_item call eventually completes: given that each
\* awaited primitive settles in finite time, a call that has been received
\* reaches the end of its handler (a result or an error has been produced).
C25_OrderCompletes ==
    \A r \in Reqs :
        (req[r].tool = "order_food_item" /\ req[r].pc # "idle") ~> Done(r)

\* C25 witness: a call has completed after its search clicked the second of
\* two candidates and its modal flow went through the whole chain.
C25_Witness ==
    \E r \in OrderCalls :
        /\ Done(r) /\ req[r].drv = "returned"
        /\ req[r].clickedAt = <<1, 2>>
        /\ req[r].acts = Chain /\ req[r].aborted = "none"

\* The search of `rec` clicked a matching element successfully.
ClickedOne(rec) == rec.fres # <<>> /\ rec.fres.success

\* C26 (as stated): in every OrderResult that orderFoodItem returns, found and
\* success are equal: both true exactly when a matching element was clicked
\* successfully, both false otherwise; when matching elements exist but every
\* click on them failed, the error is the same "not found on the menu" error
\* as for an absent item.
C26_FoundIsSuccess ==
    \A r \in OrderCalls :
        (Done(r) /\ req[r].drv = "returned") =>
            /\ req[r].res.found = req[r].res.success
            /\ req[r].res.success <=> ClickedOne(req[r])
            /\ ( /\ req[r].fres # <<>> /\ ~req[r].fres.success
                 /\ req[r].clickedAt # <<>> ) =>
                    req[r].res.error = ItemNotFound(req[r].itemName).error

\* C26 (amended): in every OrderResult that orderFoodItem returns, found and
\* success are equal.  Both are true exactly when a matching element was
\* clicked successfully and the screenshot of the try block was taken; the
\* result then names the clicked element.  When that screenshot fails the
\* catch block's result has both false and the exception's message, even
\* after a successful click.  Otherwise, when matching elements exist but
\* every click on them failed, both are false and the error is the "not found
\* on the menu" error that names the requested item, as for an absent item.
C26_FoundIsSuccessUnlessCaught ==
    \A r \in OrderCalls :
        (Done(r) /\ req[r].drv = "returned") =>
            /\ req[r].res.found = req[r].res.success
            /\ req[r].res.success <=> (ClickedOne(req[r]) /\ ~req[r].failed)
            /\ req[r].res.success =>
                    req[r].res.clickedElement = req[r].fres.clickedElement
            /\ req[r].failed => req[r].res.error = <<"error.message">>
            /\ (~req[r].failed /\ ~ClickedOne(req[r]) /\ req[r].menuItems # <<>>) =>
                    /\ req[r].res.error[1] = "Item not found on the menu"
                    /\ req[r].res.error[2] = req[r].itemName

\* C26 witness: both candidates matched, both clicks failed, and the call
\* returned found = success = false with the "not found on the menu" error.
C26_Witness ==
    \E r \in OrderCalls :
        /\ Done(r) /\ req[r].drv = "returned" /\ ~req[r].failed
        /\ req[r].clickedAt = <<1, 2>>
        /\ ~req[r].res.found /\ ~req[r].res.success
        /\ req[r].res.error[1] = "Item not found on the menu"

\* C27 (as stated): the success flag depends only on the item click: once a
\* matching item has been clicked, the OrderResult that orderFoodItem returns
\* has success = true, whatever happened in the modal flow.
C27_SuccessOnlyOnClick ==
    \A r \in OrderCalls :
        (Done(r) /\ req[r].drv = "returned" /\ ClickedOne(req[r])) =>
            req[r].res.success

\* C27 (amended): nothing that happens in the modal flow changes the outcome:
\* no step of the flow enters orderFoodItem's catch block or alters the
\* result of the search, every way out of the flow leads to the screenshot of
\* the try block, and once a matching item has been clicked the call
\* returns success = true if that screenshot is taken (success = false, from
\* the catch block, if it fails).
C27_ModalFlowNeverFails ==
    /\ [][\A r \in OrderCalls :
            req[r].pc \in ModalPrimitives =>
                /\ req'[r].pc \in ModalPrimitives \cup {"shot"}
                /\ req'[r].fres = req[r].fres
                /\ req'[r].failed = req[r].failed
                /\ req'[r].drv = "running"]_vars
    /\ [](\A r \in OrderCalls :
            /\ req[r].pc \in ModalPrimitives => (ClickedOne(req[r]) /\ ~req[r].failed)
            /\ (Done(r) /\ req[r].drv = "returned" /\ ClickedOne(req[r])) =>
                    (req[r].res.success <=> ~req[r].failed))

\* C27 witness: the item was clicked, the modal never appeared, and the call
\* returned success = true.
C27_Witness ==
    \E r \in OrderCalls :
        /\ Done(r) /\ req[r].drv = "returned"
        /\ req[r].res.success
        /\ req[r].acts = <<"modal">> /\ req[r].aborted = "wait"

\* A turn in which the model requested tool calls has just been completed:
\* the loop is back at its prompt and `msg` is the message of that turn.
ToolTurnCompleted == cpc = "ask" /\ msg # <<>>

\* C28: after every completed turn in which the model requested tool calls
\* the history ends with the user message, the assistant message carrying the
\* tool calls, one tool message per function-type call with that call's id,
\* in call order, and one assistant text reply; messages are only ever
\* appended: the system message stays first and what was pushed stays as it is.
C28_HistoryOfAToolTurn ==
    /\ [](ToolTurnCompleted =>
            LET ids == FunctionCallIds(msg)
                n == Len(ids)
                last == Len(history)
            IN  /\ last >= n + 4
                /\ history[last].role = "assistant"
                /\ DOMAIN history[last] = {"role", "content"}
                /\ \A j \in 1..n :
                        /\ history[last - n - 1 + j].role = "tool"
                        /\ history[last - n - 1 + j].tool_call_id = ids[j]
                /\ history[last - n - 1] = msg
                /\ history[last - n - 2] = [role |-> "user", content |-> user])
    /\ [](history[1] = SystemMessage)
    /\ [][/\ Len(history') >= Len(history)
           /\ SubSeq(history', 1, Len(history)) = history]_vars

\* C28 witness: the second turn has been completed with a message of two
\* tool calls, of which only the second was a function call.
C28_Witness ==
    /\ ToolTurnCompleted /\ turns = 2
    /\ Len(msg.tool_calls) = 2
    /\ msg.tool_calls[1].type = "custom" /\ msg.tool_calls[2].type = "function"
    /\ history[Len(history) - 1].role = "tool"
    /\ history[Len(history) - 1].tool_call_id = CallId(2)
    /\ history[Len(history) - 2] = msg

\* initBrowser is being run by some call.
Initializing == \E r \in Reqs : req[r].pc \in {"launch", "newContext", "newPage", "goto", "settle"}

\* The first initialization has failed after the launch: there is a browser,
\* no call is in initBrowser, and there is no page or the page has not loaded
\* the target URL.
InitFailed == browser # 0 /\ ~Initializing /\ page \notin loaded

\* C29: a failed first initialization is never retried: the browser handle,
\* once set, stays as it is, so after a failure of the context or page
\* creation or of the navigation no later call launches, creates a page or
\* navigates: every call that enters initBrowser skips it and runs against
\* the page as it was left, missing or not loaded; with no page,
\* order_food_item raises and browse_menu returns an empty list.
C29_FailedInitNotRetried ==
    /\ [][browser # 0 => browser' = browser]_vars
    /\ [][InitFailed =>
            /\ InitFailed'
            /\ UNCHANGED <<page, launched, pagesCreated, gotos, loaded>>]_vars
    /\ [](InitFailed =>
            \A r \in Reqs :
                /\ req[r].sawBrowser > 0 =>
                        /\ req[r].sawBrowser = browser /\ req[r].sawPage = page
                        /\ req[r].launches = 0 /\ req[r].made = 0
                /\ (Done(r) /\ req[r].sawBrowser > 0 /\ page = 0) =>
                        IF req[r].tool = "order_food_item"
                          THEN req[r].drv = "raised"
                          ELSE req[r].drv = "returned" /\ req[r].res = <<>>)

\* C29 witness: the navigation of the first call failed, and a later
\* order_food_item call, which launched nothing, has searched the page that
\* never loaded and returned.
C29_Witness ==
    /\ InitFailed /\ page # 0 /\ gotos = 1
    /\ \E r \in OrderCalls :
            /\ Done(r) /\ req[r].drv = "returned"
            /\ req[r].sawBrowser = browser /\ req[r].launches = 0
            /\ req[r].yields # <<>>

\* An element whose item-name attribute and text content are both empty or absent.
Blank(el) == Falsy(el.name) /\ Falsy(el.text)

\* The blank candidates of `rec`, by position.
Blanks(rec) == { k \in 1..Len(rec.menuItems) : Blank(rec.menuItems[k]) }

\* The click attempts of `rec`, as a set of positions.
ClickAttempts(rec) == { rec.clickedAt[j] : j \in 1..Len(rec.clickedAt) }

====
